---- MODULE Spec2Model ----
(***************************************************************************)
(* A model of the emi-transport event/command transport engine:            *)
(*   - HttpClient.Post / doPost   (src/http.go, src/bot.go 513-611)        *)
(*   - WebsocketEventSource       (src/bot.go 267-424)                     *)
(*   - Bot (dispatcher)           (src/bot.go 15-104)                      *)
(*   - SegmentBuilder             (src/unnamed/part_001 10-82)             *)
(* The specifications share the variables: SpecPost drives one call of     *)
(* HttpClient.Post, Spec drives one Bot on one WebsocketEventSource.       *)
(***************************************************************************)
EXTENDS Integers, Sequences, FiniteSets, TLC

\* ------------------------------------------------------------------ bounds
\* largest maxRetries a client is configured with
MaxRetriesCfg == 2
\* largest baseRetryDelay / maxRetryJitter (model time units) a client is configured with
MaxDelayCfg == 2
\* number of successful Open calls (connection instances) in one run
MaxOpens == 2
\* number of frames the gateway sends in one run
MaxFrames == 2
\* number of SetEventRegistry / Handle calls of the application's setup
MaxSetup == 3
\* width in bits of a time.Duration (and of an int) in the model
DurationBits == 4
\* number of Append calls on one SegmentBuilder
MaxAppends == 3

VARIABLES
    \* ---- HttpClient configuration (fields of HttpClient)
    maxRetries, baseRetryDelay, maxRetryDelay, maxRetryJitter,
    \* ---- one call of HttpClient.Post
    pc,          \* position of the caller inside Post
    attempt,     \* the local variable attempt
    delay,       \* the local variable delay of the current wait
    woken,       \* the case the blocked select was woken by
    ctxDone,     \* ctx.Done() is closed
    result,      \* the error Post returned ("nil" for success)
    calls,       \* number of doPost calls started so far
    lateCalls,   \* number of doPost calls started after ctx was cancelled
    cancelledIn, \* the position of Post at which ctx was cancelled ("select":
                 \* during the wait; "elapsed": after the timer had fired)
    resp,        \* what the attempt in progress meets: the transport's error, or
                 \* the response's status and body (kept after a success)
    response,    \* the caller's response slot
    err,         \* the local variable err: what the last doPost returned
    \* ---- WebsocketEventSource
    wsConn,      \* w.wsConn: the current transport handle (Nil or an instance)
    eventChan,   \* w.eventChan
    closeChan,   \* w.closeChan
    nOpens,      \* number of transport handles dialled so far
    handleClosed,\* per handle: number of successful wsConn.Close()
    evClosed,    \* per event channel: number of close() executed on it
    sigClosed,   \* per close-completion channel: number of close() executed
    recv,        \* per instance: the receive goroutine started by its Open
                 \* (pc "exit": returned silently, "done": returned after w.Close())
    nFrames,     \* number of frames read from the transport so far
    panicked,    \* "" or the runtime panic that ended the process
    \* ---- callers
    opener,      \* per thread: a caller of Bot.Open
    closeRet,    \* the last Bot.Close call: the error it returned, and whether
                 \* it took the early return
    waiter,      \* per waiter: a caller of Wait (event source's or Bot's)
    \* ---- Bot
    eventRegistries, \* b.eventRegistries: identifier -> prototype (its Type())
    eventHandlers,   \* b.eventHandlers: identifier -> sequence of handlers
    bCloseChan,      \* b.closeChan
    disp,            \* per session: the handleEvent goroutine
    sig,             \* per session: the goroutine sending on b.closeChan
    nSetup,          \* number of setup calls made
    lastCall,        \* the last setup call and its arguments
    prototype,       \* per identifier: the fields of the registered prototype object
    \* ---- SegmentBuilder
    segments,    \* sb.segments
    error,       \* sb.error ("nil": none)
    built,       \* what the last Build call returned, and after how many Appends
    appended     \* the arguments of the Append calls made, in call order

cfgVars == <<maxRetries, baseRetryDelay, maxRetryDelay, maxRetryJitter>>
postVars == <<pc, attempt, delay, woken, ctxDone, result, calls, lateCalls, cancelledIn,
              resp, response, err>>

srcVars == <<wsConn, eventChan, closeChan, nOpens, handleClosed, evClosed,
             sigClosed, recv, nFrames, panicked>>
callVars == <<opener, closeRet, waiter>>
regVars == <<eventRegistries, eventHandlers, nSetup, lastCall, prototype>>
botVars == <<bCloseChan, disp, sig>>
connVars == <<srcVars, callVars, regVars, botVars>>

sbVars == <<segments, error, built, appended>>

vars == <<cfgVars, postVars, connVars, sbVars>>

Min(a, b) == IF a <= b THEN a ELSE b

RECURSIVE Pow2(_)
Pow2(n) == IF n = 0 THEN 1 ELSE 2 * Pow2(n - 1)

\* ------------------------------------------------------------ HttpClient

\* time.Duration and int are two's-complement integers; the model keeps the
\* wrap-around at DurationBits bits instead of 64
Modulus == Pow2(DurationBits)
Wrap(x) == ((x + Modulus \div 2) % Modulus) - Modulus \div 2

\* 1<<attempt: the bits shifted out are lost
Shl1(a) == Wrap(Pow2(a))

\* delay := min(baseRetryDelay*(1<<attempt)+jitter, maxRetryDelay)
RetryDelay(a, jitter) == Min(Wrap(Wrap(baseRetryDelay * Shl1(a)) + jitter), maxRetryDelay)

\* rand.Int64N(int64(maxRetryJitter)): uniformly one of 0 .. maxRetryJitter-1
Jitters == 0 .. (maxRetryJitter - 1)

\* The case a select { <-ctx.Done(); <-time.After(d) } can take when it is
\* entered: a closed ctx.Done() is ready at once; the timer channel is ready
\* at entry only if the duration is not positive.
SelectAtEntry(done, d) ==
    IF done THEN (IF d <= 0 THEN {"ctx", "timer"} ELSE {"ctx"})
    ELSE (IF d <= 0 THEN {"timer"} ELSE {"none"})

\* faulty variant: the select does not listen to ctx.Done()
WakeOnCancel_Lost(p, w) == w

\* A cancellation that arrives while the select is parked wakes it on the
\* ctx.Done() case.
WakeOnCancel(p, w) == IF p = "select" /\ w = "none" THEN "ctx" ELSE w

\* faulty variant: Post gives up at the first failed attempt
RetriesExceeded_AtOnce(a) == TRUE

\* the retry test of Post after a failed doPost
RetriesExceeded(a) == a > maxRetries

\* ---- what one attempt meets

\* HttpResult envelopes: data is the JSON text of the data member ("" when
\* the member is absent); "v1" decodes into the slot, "bad" has a member of
\* the wrong type
Envelopes ==
    { [Status |-> "ok", Code |-> 0, Data |-> d] : d \in {"v1", "", "null", "bad"} }
    \cup { [Status |-> "failed", Code |-> -1, Data |-> d] : d \in {"v1", "", "null", "bad"} }

\* response bodies: nothing, bytes that are not JSON, or an envelope
Bodies == {[json |-> FALSE, empty |-> TRUE], [json |-> FALSE, empty |-> FALSE]}
          \cup { [json |-> TRUE, empty |-> FALSE, env |-> e] : e \in Envelopes }

Statuses == {199, 200, 204, 299, 300}

NoResp == [kind |-> "none"]
TransportError == [kind |-> "transport error"]

\* what client.Do and io.ReadAll(resp.Body) can give
Responses ==
    {TransportError}
    \cup { [kind |-> "response", status |-> st, body |-> bd] : st \in Statuses, bd \in Bodies }

\* faulty variant: 300 counts as a success
StatusOk_Upto300(st) == 200 <= st /\ st <= 300

\* resp.StatusCode < http.StatusOK || resp.StatusCode >= http.StatusMultipleChoices
\* is the failure
StatusOk(st) == 200 <= st /\ st < 300

\* faulty variant: a 204 is decoded like any other response
NoContent_SlotOnly(slot, st) == slot.nil

\* if response == nil || resp.StatusCode == http.StatusNoContent { return nil }
NoContent(slot, st) == slot.nil \/ st = 204

\* json.Unmarshal(result.Data, response): empty input is a syntax error (it
\* is not io.EOF), null stores nothing, a member of the wrong type is an
\* error reported after the other members were stored
DecodeInto(slot, data) ==
    CASE data = "" -> [err |-> TRUE, slot |-> slot]
      [] data = "null" -> [err |-> FALSE, slot |-> slot]
      [] data = "bad" -> [err |-> TRUE, slot |-> [slot EXCEPT !.value = "partial"]]
      [] OTHER -> [err |-> FALSE, slot |-> [slot EXCEPT !.value = data]]

\* faulty variant: doPost rejects an envelope whose status is not "ok"
DoPostResult_ChecksStatus(r, slot) ==
    IF r.kind # "response" THEN [err |-> "request failed", slot |-> slot]
    ELSE IF ~StatusOk(r.status) THEN [err |-> "unexpected status code", slot |-> slot]
    ELSE IF NoContent(slot, r.status) THEN [err |-> "nil", slot |-> slot]
    ELSE IF ~r.body.json THEN [err |-> "failed to decode response", slot |-> slot]
    ELSE IF r.body.env.Status # "ok" THEN [err |-> "request rejected", slot |-> slot]
    ELSE LET d == DecodeInto(slot, r.body.env.Data)
         IN  [err |-> IF d.err THEN "failed to decode response" ELSE "nil", slot |-> d.slot]

\* doPost on the response r with the caller's slot: the error it returns and
\* the slot afterwards
DoPostResult(r, slot) ==
    IF r.kind # "response" THEN [err |-> "request failed", slot |-> slot]
    ELSE IF ~StatusOk(r.status) THEN [err |-> "unexpected status code", slot |-> slot]
    ELSE IF NoContent(slot, r.status) THEN [err |-> "nil", slot |-> slot]
    ELSE IF ~r.body.json THEN [err |-> "failed to decode response", slot |-> slot]
    ELSE LET d == DecodeInto(slot, r.body.env.Data)
         IN  [err |-> IF d.err THEN "failed to decode response" ELSE "nil", slot |-> d.slot]

\* the slot a caller passes: nil, or a pointer to a zero value
Slots == {[nil |-> TRUE, value |-> "zero"], [nil |-> FALSE, value |-> "zero"]}

\* a client from NewHttpClientWithOptions, at the entry of Post's loop
PostInit ==
    /\ maxRetries \in 0 .. MaxRetriesCfg
    /\ baseRetryDelay \in 1 .. MaxDelayCfg
    /\ maxRetryJitter \in 1 .. MaxDelayCfg
    /\ maxRetryDelay \in {1, 2 * MaxDelayCfg}
    /\ pc = "loop"
    /\ attempt = 0
    /\ delay = 0
    /\ woken = "none"
    /\ ctxDone = FALSE
    /\ result = "none"
    /\ calls = 0
    /\ lateCalls = 0
    /\ cancelledIn = "none"
    /\ resp = NoResp
    /\ response \in Slots
    /\ err = "nil"

\* err := h.doPost(ctx, ...) is entered and the request is sent; a request
\* created on a context that is already cancelled cannot succeed (client.Do
\* fails on it)
DoPostStart ==
    /\ pc = "loop"
    /\ pc' = IF ctxDone THEN "doPostDead" ELSE "doPost"
    /\ resp' \in IF ctxDone THEN {TransportError} ELSE Responses
    /\ calls' = calls + 1
    /\ lateCalls' = IF ctxDone THEN lateCalls + 1 ELSE lateCalls
    /\ UNCHANGED <<sbVars, connVars, cfgVars, attempt, delay, woken, ctxDone, result, cancelledIn,
                   response, err>>

\* faulty variant: Post goes round its loop again after a success
AfterSuccess_Loop == "loop"

\* if err == nil { return nil }
AfterSuccess == "returned"

\* doPost returned nil: Post returns nil
DoPostOk ==
    /\ pc = "doPost"
    /\ DoPostResult(resp, response).err = "nil"
    /\ err' = "nil"
    /\ response' = DoPostResult(resp, response).slot
    /\ pc' = AfterSuccess
    /\ result' = "nil"
    /\ UNCHANGED <<sbVars, connVars, cfgVars, attempt, delay, woken, ctxDone, calls, lateCalls,
                   cancelledIn, resp>>

\* doPost returned an error and attempt > maxRetries
DoPostFailLast ==
    /\ pc \in {"doPost", "doPostDead"}
    /\ DoPostResult(resp, response).err # "nil"
    /\ RetriesExceeded(attempt)
    /\ err' = DoPostResult(resp, response).err
    /\ response' = DoPostResult(resp, response).slot
    /\ resp' = NoResp
    /\ pc' = "returned"
    /\ result' = "max retries exceeded"
    /\ UNCHANGED <<sbVars, connVars, cfgVars, attempt, delay, woken, ctxDone, calls, lateCalls,
                   cancelledIn>>

\* doPost returned an error, a retry is due: compute the delay, enter select
DoPostFailRetry ==
    /\ pc \in {"doPost", "doPostDead"}
    /\ DoPostResult(resp, response).err # "nil"
    /\ ~RetriesExceeded(attempt)
    /\ err' = DoPostResult(resp, response).err
    /\ response' = DoPostResult(resp, response).slot
    /\ resp' = NoResp
    /\ \E jitter \in Jitters :
         /\ delay' = RetryDelay(attempt, jitter)
         /\ woken' \in SelectAtEntry(ctxDone, delay')
    /\ pc' = "select"
    /\ UNCHANGED <<sbVars, connVars, cfgVars, attempt, ctxDone, result, calls, lateCalls, cancelledIn>>

\* time.After(delay) fires while the select is parked
TimerFire ==
    /\ pc = "select"
    /\ woken = "none"
    /\ woken' = "timer"
    /\ UNCHANGED <<sbVars, connVars, cfgVars, pc, attempt, delay, ctxDone, result, calls, lateCalls,
                   cancelledIn, resp, response, err>>

\* case <-ctx.Done(): return fmt.Errorf("context canceled")
SelectCtxDone ==
    /\ pc = "select"
    /\ woken = "ctx"
    /\ pc' = "returned"
    /\ result' = "context canceled"
    /\ UNCHANGED <<sbVars, connVars, cfgVars, attempt, delay, woken, ctxDone, calls, lateCalls,
                   cancelledIn, resp, response, err>>

\* case <-time.After(delay): attempt += 1, next iteration
SelectTimer ==
    /\ pc = "select"
    /\ woken = "timer"
    /\ attempt' = attempt + 1
    /\ pc' = "loop"
    /\ woken' = "none"
    /\ UNCHANGED <<sbVars, connVars, cfgVars, delay, ctxDone, result, calls, lateCalls, cancelledIn,
                   resp, response, err>>

\* the caller's context is cancelled (by another goroutine or its deadline);
\* a request in flight is aborted unless its response has already been read
Cancel ==
    /\ ~ctxDone
    /\ pc # "returned"
    /\ ctxDone' = TRUE
    /\ cancelledIn' = IF pc = "select" /\ woken # "none" THEN "elapsed" ELSE pc
    /\ woken' = WakeOnCancel(pc, woken)
    /\ resp' \in IF pc = "doPost" THEN {resp, TransportError} ELSE {resp}
    /\ UNCHANGED <<sbVars, connVars, cfgVars, pc, attempt, delay, result, calls, lateCalls,
                   response, err>>

\* ------------------------------------------------- frames and decoding

\* nil: no handle, no channel (instances are numbered from 1)
Nil == 0

Instances == 1 .. MaxOpens

\* event-type identifiers
Types == {"a", "b"}

\* The bytes of a frame are a sequence of tokens. A JSON object is "{", its
\* members, "}"; a member token is "<key>:<value>".
WellTyped == {"type:a", "type:b", "self_id:1", "data:{text:hi}", "data:{text:5}",
              "data:{}"}
IllTyped == {"type:5", "self_id:x"}
Members == WellTyped \cup IllTyped

\* milky_types.RawEvent{}: the zero value
ZeroRawEvent == [Type |-> "", SelfID |-> 0, Data |-> ""]

\* json's validity scan, which runs before anything is stored
ValidJSON(b) ==
    /\ Len(b) >= 2
    /\ b[1] = "{"
    /\ b[Len(b)] = "}"
    /\ \A k \in 2 .. (Len(b) - 1) : b[k] \in Members

\* storing one member into the RawEvent; an ill-typed member is skipped
SetMember(ev, m) ==
    CASE m = "type:a" -> [ev EXCEPT !.Type = "a"]
      [] m = "type:b" -> [ev EXCEPT !.Type = "b"]
      [] m = "self_id:1" -> [ev EXCEPT !.SelfID = 1]
      [] m = "data:{text:hi}" -> [ev EXCEPT !.Data = "{text:hi}"]
      [] m = "data:{text:5}" -> [ev EXCEPT !.Data = "{text:5}"]
      [] m = "data:{}" -> [ev EXCEPT !.Data = "{}"]
      [] OTHER -> ev

RECURSIVE SetMembers(_, _, _)
SetMembers(ev, b, k) ==
    IF k >= Len(b) THEN ev ELSE SetMembers(SetMember(ev, b[k]), b, k + 1)

\* json.Unmarshal(messageBytes, &rawEvent) on a zero RawEvent: a syntax error
\* stores nothing; a type error is reported after the other members are stored
Unmarshal(b) ==
    IF ~ValidJSON(b)
    THEN [err |-> TRUE, ev |-> ZeroRawEvent]
    ELSE [err |-> \E k \in 2 .. (Len(b) - 1) : b[k] \in IllTyped,
          ev |-> SetMembers(ZeroRawEvent, b, 2)]

\* the Adler-32 trailer of a zlib stream, here a token that depends on the
\* length and the last member of the payload
Checksum(p) == IF Len(p) = 0 THEN "sum:" ELSE "sum:" \o p[Len(p)]

\* what the gateway does to send a compressed frame
Compress(p) == <<"zlib">> \o p \o <<Checksum(p)>>

\* zlib.NewReader: fails (and returns a nil reader) on a bad header
ZlibHeaderOk(m) == Len(m) >= 1 /\ m[1] = "zlib"

\* io.ReadAll(zlib): the payload read so far, and whether an error ended it
\* (a missing or wrong trailer is reported after the payload was delivered)
ZlibReadAll(m) ==
    IF Len(m) < 2
    THEN [err |-> TRUE, data |-> <<>>]
    ELSE LET body == SubSeq(m, 2, Len(m) - 1)
         IN  [err |-> m[Len(m)] # Checksum(body), data |-> body]

JsonA == <<"{", "type:a", "self_id:1", "data:{text:hi}", "}">>
JsonB == <<"{", "type:b", "self_id:1", "data:{text:hi}", "}">>

\* the payloads the gateway may send: events, an event whose data has no
\* member, an event whose data does not fit its type, a truncated text, an
\* event with a member of the wrong type
Payloads ==
    { JsonA, JsonB,
      <<"{", "type:b", "data:{}", "}">>,
      <<"{", "type:a", "data:{text:5}", "}">>,
      <<"{", "type:a">>,
      <<"{", "type:a", "self_id:x", "data:{text:hi}", "}">> }

\* no frame: the zero value of messageType, message
NoFrame == [binary |-> FALSE, message |-> <<>>]

\* the frames the gateway may send: [binary, message]; every payload as a
\* text frame and as a compressed binary frame, a binary frame with a wrong
\* trailer and one that is not a zlib stream
Frames ==
    { [binary |-> FALSE, message |-> p] : p \in Payloads }
    \cup { [binary |-> TRUE, message |-> Compress(p)] : p \in Payloads }
    \cup { [binary |-> TRUE, message |-> <<"zlib">> \o JsonA \o <<"sum:{">>],
           [binary |-> TRUE, message |-> JsonA] }

\* the zlib.NewReader error of a frame (text frames are not decompressed)
NewReaderErr(f) == f.binary /\ ~ZlibHeaderOk(f.message)

\* faulty variant: a binary frame is not decompressed
MessageBytes_Raw(f) == f.message

\* messageBytes of a frame whose reader could be created
MessageBytes(f) == IF f.binary THEN ZlibReadAll(f.message).data ELSE f.message

\* some step from the frame to the RawEvent reported an error
FrameErr(f) ==
    \/ NewReaderErr(f)
    \/ f.binary /\ ZlibReadAll(f.message).err
    \/ Unmarshal(MessageBytes(f)).err

\* a typed event of the type proto with zero fields
ZeroEvent(proto) == [Type |-> proto, text |-> ""]

\* decoder.Decode(event): the members present in the data are stored into
\* the event, the other fields keep what they hold; an empty payload is
\* io.EOF, a member of the wrong type is a type error
Decode(event, data) ==
    [err |-> data \notin {"{text:hi}", "{}"},
     event |-> IF data = "{text:hi}" THEN [event EXCEPT !.text = "hi"] ELSE event]

\* faulty variant: the decode error is not looked at
DecodeData_Unchecked(proto, data) ==
    [err |-> FALSE, event |-> Decode(ZeroEvent(proto), data).event]

\* decoding rawEvent.Data into a zero event of the prototype's type
DecodeData(proto, data) == Decode(ZeroEvent(proto), data)

\* --------------------------------------------------- WebsocketEventSource

Threads == {"t1", "t2"}
Waiters == {"w1", "w2"}

Alive == panicked = ""

\* no: the ordinal of the frame the goroutine holds (0: none); frame: the
\* messageType and message ReadMessage returned
IdleRecv == [pc |-> "none", ev |-> ZeroRawEvent, err |-> FALSE, no |-> 0, frame |-> NoFrame]
IdleOpener == [pc |-> "idle", err |-> "none", ch |-> Nil]

\* faulty variant: Open without the already-connected test
AlreadyConnected_Never == FALSE

\* if w.wsConn != nil { return nil, ErrAlreadyConnected }
AlreadyConnected == wsConn # Nil

\* faulty variant: Open does not record the handle it dialled
WsConnAfterOpen_Unset(i) == wsConn

\* w.wsConn = wsConn
WsConnAfterOpen(i) == i

\* faulty variant: a re-Open keeps the channels of the closed instance
MakeChan_Kept(i) == IF eventChan # Nil THEN eventChan ELSE i

\* make(chan ...): a channel that did not exist before, named by the
\* instance it is made for
MakeChan(i) == i

\* Open: under w.Lock(); dialOk is the outcome of dialer.Dial
OpenCall(t, dialOk) ==
    /\ Alive
    /\ opener[t].pc = "idle"
    /\ IF AlreadyConnected
       THEN /\ opener' = [opener EXCEPT ![t] =
                    [pc |-> "failed", err |-> "already connected", ch |-> Nil]]
            /\ UNCHANGED srcVars
       ELSE IF ~dialOk
       THEN /\ opener' = [opener EXCEPT ![t] =
                    [pc |-> "failed", err |-> "dial error", ch |-> Nil]]
            /\ UNCHANGED srcVars
       ELSE /\ nOpens < MaxOpens
            /\ LET i == nOpens + 1 IN
                 /\ nOpens' = i
                 /\ wsConn' = WsConnAfterOpen(i)
                 /\ eventChan' = MakeChan(i)
                 /\ closeChan' = MakeChan(i)
                 /\ recv' = [recv EXCEPT ![i] = [IdleRecv EXCEPT !.pc = "read"]]
                 /\ opener' = [opener EXCEPT ![t] =
                        [pc |-> "opened", err |-> "nil", ch |-> eventChan']]
            /\ UNCHANGED <<handleClosed, evClosed, sigClosed, nFrames, panicked>>
    /\ UNCHANGED <<sbVars, cfgVars, postVars, closeRet, waiter, regVars, botVars>>

\* faulty variant: Close without the early return
CloseNoop_Never == FALSE

\* if w.wsConn == nil { return nil }
CloseNoop == wsConn = Nil

\* faulty variant: Close forgets to clear the handle
WsConnAfterClose_Kept == wsConn

\* w.wsConn = nil
WsConnAfterClose == Nil

\* faulty variant: Close leaves the close-completion channel open
SigClosedAfterClose_Open == sigClosed

\* close(w.closeChan)
SigClosedAfterClose == [sigClosed EXCEPT ![closeChan] = @ + 1]

\* faulty variant: Close goes on after w.wsConn.Close() failed
CloseFails_Ignored(ok) == FALSE

\* err := w.wsConn.Close(); if err != nil { return err }
CloseFails(ok) == wsConn # Nil /\ ~ok

\* the error Close returns; ok is the outcome of w.wsConn.Close()
CloseErr(ok) == IF CloseNoop \/ ok THEN "nil" ELSE "close error"

\* The body of Close, under w.Lock(). close() of a nil or closed channel and
\* a method call through a nil handle are runtime panics.
CloseBody(ok) ==
    IF CloseNoop \/ CloseFails(ok)
    THEN UNCHANGED <<wsConn, handleClosed, evClosed, sigClosed, panicked>>
    ELSE IF wsConn = Nil
    THEN /\ panicked' = "nil pointer dereference"
         /\ UNCHANGED <<wsConn, handleClosed, evClosed, sigClosed>>
    ELSE /\ handleClosed' = [handleClosed EXCEPT ![wsConn] = @ + 1]
         /\ wsConn' = WsConnAfterClose
         /\ IF eventChan = Nil
            THEN /\ panicked' = "close of nil channel"
                 /\ UNCHANGED <<evClosed, sigClosed>>
            ELSE /\ evClosed' = [evClosed EXCEPT ![eventChan] = @ + 1]
                 /\ IF evClosed[eventChan] > 0
                    THEN /\ panicked' = "close of closed channel"
                         /\ UNCHANGED sigClosed
                    ELSE /\ sigClosed' = SigClosedAfterClose
                         /\ panicked' = IF sigClosed[closeChan] > 0
                                        THEN "close of closed channel" ELSE panicked

\* Bot.Close, i.e. eventSource.Close, called by the application
ExtClose(ok) ==
    /\ Alive
    /\ CloseBody(ok)
    /\ closeRet' = [err |-> CloseErr(ok), early |-> CloseNoop]
    /\ UNCHANGED <<eventChan, closeChan, nOpens, recv, nFrames>>
    /\ UNCHANGED <<sbVars, cfgVars, postVars, opener, waiter, regVars, botVars>>

\* faulty variant: the push does not wait for the loop to receive
AtRead_Unblocked(i) == recv[i].pc \in {"read", "send"}

\* the goroutine is in wsConn.ReadMessage: eventChan is unbuffered, so the
\* push of the frame before has been received
AtRead(i) == recv[i].pc = "read"

\* wsConn.ReadMessage returns a frame; the frame is decompressed and decoded
\* and the goroutine reaches eventChan <- rawEvent. A nil zlib reader makes
\* io.ReadAll panic.
RecvFrame(i, f) ==
    /\ Alive
    /\ AtRead(i)
    /\ handleClosed[i] = 0
    /\ nFrames < MaxFrames
    /\ nFrames' = nFrames + 1
    /\ IF NewReaderErr(f)
       THEN /\ panicked' = "nil pointer dereference"
            /\ UNCHANGED recv
       ELSE /\ recv' = [recv EXCEPT ![i] =
                  [pc |-> "send", ev |-> Unmarshal(MessageBytes(f)).ev, err |-> FrameErr(f),
                   no |-> nFrames + 1, frame |-> f]]
            /\ UNCHANGED panicked
    /\ UNCHANGED <<wsConn, eventChan, closeChan, nOpens, handleClosed, evClosed, sigClosed>>
    /\ UNCHANGED <<sbVars, cfgVars, postVars, callVars, regVars, botVars>>

\* wsConn.ReadMessage returns an error: the handle was closed, or the
\* transport failed
RecvError(i) ==
    /\ Alive
    /\ recv[i].pc = "read"
    /\ recv' = [recv EXCEPT ![i].pc = "check"]
    /\ UNCHANGED <<wsConn, eventChan, closeChan, nOpens, handleClosed, evClosed,
                   sigClosed, nFrames, panicked>>
    /\ UNCHANGED <<sbVars, cfgVars, postVars, callVars, regVars, botVars>>

\* w.RLock(); ws := w.wsConn; w.RUnlock(); if wsConn != ws { return }
StillCurrent(i) == wsConn = i

RecvCheck(i) ==
    /\ Alive
    /\ recv[i].pc = "check"
    /\ recv' = [recv EXCEPT ![i].pc = IF StillCurrent(i) THEN "close" ELSE "exit"]
    /\ UNCHANGED <<wsConn, eventChan, closeChan, nOpens, handleClosed, evClosed,
                   sigClosed, nFrames, panicked>>
    /\ UNCHANGED <<sbVars, cfgVars, postVars, callVars, regVars, botVars>>

\* err := w.Close(); an error is logged; return
RecvClose(i, ok) ==
    /\ Alive
    /\ recv[i].pc = "close"
    /\ CloseBody(ok)
    /\ recv' = [recv EXCEPT ![i].pc = "done"]
    /\ UNCHANGED <<eventChan, closeChan, nOpens, nFrames>>
    /\ UNCHANGED <<sbVars, cfgVars, postVars, callVars, regVars, botVars>>

\* eventChan <- rawEvent on a closed channel
RecvSendPanic(i) ==
    /\ Alive
    /\ recv[i].pc = "send"
    /\ evClosed[i] > 0
    /\ panicked' = "send on closed channel"
    /\ UNCHANGED <<wsConn, eventChan, closeChan, nOpens, handleClosed, evClosed,
                   sigClosed, recv, nFrames>>
    /\ UNCHANGED <<sbVars, cfgVars, postVars, callVars, regVars, botVars>>

\* select { case <-closeChan: return; default: }
RecvPoll(i) ==
    /\ Alive
    /\ recv[i].pc = "poll"
    /\ recv' = [recv EXCEPT ![i].pc = IF sigClosed[i] > 0 THEN "exit" ELSE "read"]
    /\ UNCHANGED <<wsConn, eventChan, closeChan, nOpens, handleClosed, evClosed,
                   sigClosed, nFrames, panicked>>
    /\ UNCHANGED <<sbVars, cfgVars, postVars, callVars, regVars, botVars>>

\* WebsocketEventSource.Wait: <-w.closeChan, the channel read at the call
WsWaitCall(w) ==
    /\ Alive
    /\ waiter[w].pc = "idle"
    /\ waiter' = [waiter EXCEPT ![w] = [pc |-> "blocked", kind |-> "source", ch |-> closeChan]]
    /\ UNCHANGED <<sbVars, cfgVars, postVars, srcVars, opener, closeRet, regVars, botVars>>

\* a receive on a closed channel returns; a receive on a nil channel never does
WsWaitReturn(w) ==
    /\ Alive
    /\ waiter[w].pc = "blocked"
    /\ waiter[w].kind = "source"
    /\ waiter[w].ch # Nil
    /\ sigClosed[waiter[w].ch] > 0
    /\ waiter' = [waiter EXCEPT ![w].pc = "returned"]
    /\ UNCHANGED <<sbVars, cfgVars, postVars, srcVars, opener, closeRet, regVars, botVars>>

\* ------------------------------------------------------------------- Bot

Handlers == {"h1", "h2", "h3"}

\* handler.Type()
HandlerType(h) == IF h = "h3" THEN "b" ELSE "a"

\* no: the ordinal of the frame of the raw event in hand; log: what the loop
\* did so far, one entry per raw event received and per handler call
IdleDisp == [pc |-> "none", ch |-> Nil, ev |-> ZeroRawEvent, event |-> ZeroEvent(""),
             rest |-> <<>>, calls |-> <<>>,
             no |-> 0, log |-> <<>>]
IdleSig == [pc |-> "none", ch |-> Nil]
IdleWaiter == [pc |-> "idle", kind |-> "none", ch |-> Nil]

\* the registries are filled before the first Open (spec 3: read-only once
\* dispatch has begun)
InSetup == nOpens = 0 /\ \A t \in Threads : opener[t].pc = "idle"

NoCall == [op |-> "none"]

\* faulty variant: an identifier that has a prototype keeps it
RegistryAfterSet_KeepFirst(k, proto) ==
    IF eventRegistries[k] # "" THEN eventRegistries
    ELSE [eventRegistries EXCEPT ![k] = proto]

\* b.eventRegistries[eventType] = event
RegistryAfterSet(k, proto) == [eventRegistries EXCEPT ![k] = proto]

\* Bot.SetEventRegistry(eventType, event): k the identifier, proto the
\* identifier event.Type() reports
SetEventRegistry(k, proto) ==
    /\ Alive
    /\ InSetup
    /\ nSetup < MaxSetup
    /\ nSetup' = nSetup + 1
    /\ lastCall' = [op |-> "SetEventRegistry", eventType |-> k, event |-> proto]
    /\ eventRegistries' = RegistryAfterSet(k, proto)
    /\ prototype' = [prototype EXCEPT ![k] = ZeroEvent(proto)]
    /\ UNCHANGED <<sbVars, cfgVars, postVars, srcVars, callVars, eventHandlers, botVars>>

\* faulty variant: the new handler replaces the list
HandlersAfterHandle_Replaced(h) == [eventHandlers EXCEPT ![HandlerType(h)] = <<h>>]

\* b.eventHandlers[handler.Type()] = append(b.eventHandlers[handler.Type()], handler)
HandlersAfterHandle(h) == [eventHandlers EXCEPT ![HandlerType(h)] = Append(@, h)]

\* Bot.Handle(handler)
Handle(h) ==
    /\ Alive
    /\ InSetup
    /\ nSetup < MaxSetup
    /\ nSetup' = nSetup + 1
    /\ lastCall' = [op |-> "Handle", handler |-> h]
    /\ eventHandlers' = HandlersAfterHandle(h)
    /\ UNCHANGED <<sbVars, cfgVars, postVars, srcVars, callVars, eventRegistries, prototype, botVars>>

\* Bot.Open after eventSource.Open succeeded: b.closeChan = make(chan any);
\* go b.handleEvent(eventChan). The new channel is named by its session.
BotOpenFinish(t) ==
    /\ Alive
    /\ opener[t].pc = "opened"
    /\ bCloseChan' = opener[t].ch
    /\ disp' = [disp EXCEPT ![opener[t].ch] =
          [IdleDisp EXCEPT !.pc = "range", !.ch = opener[t].ch]]
    /\ opener' = [opener EXCEPT ![t] = IdleOpener]
    /\ UNCHANGED <<sbVars, cfgVars, postVars, srcVars, closeRet, waiter, regVars, sig>>

\* faulty variant: Bot.Open makes a new completion channel before it looks
\* at the error
BotOpenFail_NewSignal(t) ==
    /\ Alive
    /\ opener[t].pc = "failed"
    /\ opener' = [opener EXCEPT ![t] = IdleOpener]
    /\ bCloseChan' = IF bCloseChan = 1 THEN 2 ELSE 1
    /\ UNCHANGED <<sbVars, cfgVars, postVars, srcVars, closeRet, waiter, regVars, disp, sig>>

\* Bot.Open after eventSource.Open failed: return err
BotOpenFail(t) ==
    /\ Alive
    /\ opener[t].pc = "failed"
    /\ opener' = [opener EXCEPT ![t] = IdleOpener]
    /\ UNCHANGED <<sbVars, cfgVars, postVars, srcVars, closeRet, waiter, regVars, botVars>>

\* eventRegistry.New(): a new zero event of the prototype's type (the
\* registry is a zero-value factory); shared tells whether the object handed
\* out is the registered prototype
New(k) == [shared |-> FALSE, event |-> ZeroEvent(eventRegistries[k])]

\* faulty variant: the loop decodes into the registered prototype
DecodeTarget_Prototype(k) == [shared |-> TRUE, event |-> prototype[k]]

\* event := eventRegistry.New(); decoder.Decode(event): the object the loop
\* body decodes into and hands to the handlers
DecodeTarget(k) == New(k)

\* eventRegistry, ok := b.eventRegistries[rawEvent.Type]
Registered(k) == k \in Types /\ eventRegistries[k] # ""

\* handlers, ok := b.eventHandlers[eventRegistry.Type()]
HandlersFor(k) == eventHandlers[eventRegistries[k]]

\* the prototype objects once the loop body decoded the raw event ev
PrototypeAfterDecode(ev) ==
    IF Registered(ev.Type) /\ HandlersFor(ev.Type) # <<>> /\ DecodeTarget(ev.Type).shared
    THEN [prototype EXCEPT ![ev.Type] = Decode(DecodeTarget(ev.Type).event, ev.Data).event]
    ELSE prototype

\* how the loop body disposes of a raw event: one of its three continue
\* branches, or the handler calls
Outcome(ev) ==
    IF ~Registered(ev.Type) THEN "unknown type"
    ELSE IF HandlersFor(ev.Type) = <<>> THEN "no handler"
    ELSE IF DecodeData(eventRegistries[ev.Type], ev.Data).err THEN "decode error"
    ELSE "dispatch"

\* faulty variant: the loop leaves instead of continuing
Continue_Return == "ended"

\* continue: the loop goes back to its receive on eventChan
Continue == "range"

\* faulty variant: the send does not complete, the event stays to be received
AfterSend_Stay == "send"

\* the receive goroutine's position once eventChan <- rawEvent completed
AfterSend == "poll"

\* the handlers the loop body will invoke for a raw event (<<>>: continue)
ToInvoke(ev) ==
    IF ~Registered(ev.Type) THEN <<>>
    ELSE IF HandlersFor(ev.Type) = <<>> THEN <<>>
    ELSE IF DecodeData(eventRegistries[ev.Type], ev.Data).err THEN <<>>
    ELSE HandlersFor(ev.Type)

\* for rawEvent := range eventChan: the receive goroutine's send and the
\* loop's receive meet; the loop body runs up to the first handler call
DispatchTake(s) ==
    /\ Alive
    /\ disp[s].pc = "range"
    /\ LET i == disp[s].ch IN
         /\ recv[i].pc = "send"
         /\ evClosed[i] = 0
         /\ recv' = [recv EXCEPT ![i] = [IdleRecv EXCEPT !.pc = AfterSend]]
         /\ LET lg == Append(disp[s].log,
                             [frame |-> recv[i].no, what |-> Outcome(recv[i].ev)])
            IN disp' = [disp EXCEPT ![s] =
                 IF ToInvoke(recv[i].ev) = <<>>
                 THEN [IdleDisp EXCEPT !.pc = Continue, !.ch = i, !.log = lg]
                 ELSE [pc |-> "handle", ch |-> i, ev |-> recv[i].ev,
                       event |-> Decode(DecodeTarget(recv[i].ev.Type).event,
                                        recv[i].ev.Data).event,
                       rest |-> ToInvoke(recv[i].ev), calls |-> <<>>,
                       no |-> recv[i].no, log |-> lg]]
         /\ prototype' = PrototypeAfterDecode(recv[i].ev)
    /\ UNCHANGED <<wsConn, eventChan, closeChan, nOpens, handleClosed, evClosed,
                   sigClosed, nFrames, panicked>>
    /\ UNCHANGED <<sbVars, cfgVars, postVars, callVars, eventRegistries, eventHandlers, nSetup,
                   lastCall, bCloseChan, sig>>

\* handler.Handle(b, event, rawEvent) for the next handler of the slice
DispatchInvoke(s) ==
    /\ Alive
    /\ disp[s].pc = "handle"
    /\ LET lg == Append(disp[s].log,
                        [frame |-> disp[s].no, what |-> Head(disp[s].rest)])
       IN disp' = [disp EXCEPT ![s] =
            IF Len(disp[s].rest) = 1
            THEN [IdleDisp EXCEPT !.pc = "range", !.ch = disp[s].ch, !.log = lg]
            ELSE [disp[s] EXCEPT !.calls = Append(@, Head(disp[s].rest)),
                                 !.rest = Tail(@), !.log = lg]]
    /\ UNCHANGED <<sbVars, cfgVars, postVars, srcVars, callVars, regVars, bCloseChan, sig>>

\* the range loop ends on the closed channel: go func() { b.closeChan <- struct{}{} }()
DispatchEnd(s) ==
    /\ Alive
    /\ disp[s].pc = "range"
    /\ evClosed[disp[s].ch] > 0
    /\ disp' = [disp EXCEPT ![s].pc = "ended"]
    /\ sig' = [sig EXCEPT ![s].pc = "start"]
    /\ UNCHANGED <<sbVars, cfgVars, postVars, srcVars, callVars, regVars, bCloseChan>>

\* the signalling goroutine evaluates b.closeChan and blocks in the send
SigSend(s) ==
    /\ Alive
    /\ sig[s].pc = "start"
    /\ sig' = [sig EXCEPT ![s] = [pc |-> "sending", ch |-> bCloseChan]]
    /\ UNCHANGED <<sbVars, cfgVars, postVars, srcVars, callVars, regVars, bCloseChan, disp>>

\* faulty variant: Bot.Wait receives without looking at the channel
BotWaitCall_NoNilCheck(w) ==
    /\ Alive
    /\ waiter[w].pc = "idle"
    /\ waiter' = [waiter EXCEPT ![w] = [pc |-> "blocked", kind |-> "bot", ch |-> bCloseChan]]
    /\ UNCHANGED <<sbVars, cfgVars, postVars, srcVars, opener, closeRet, regVars, botVars>>

\* Bot.Wait: if b.closeChan == nil { return }; <-b.closeChan
BotWaitCall(w) ==
    /\ Alive
    /\ waiter[w].pc = "idle"
    /\ waiter' = [waiter EXCEPT ![w] =
          [pc |-> IF bCloseChan = Nil THEN "returned" ELSE "blocked",
           kind |-> "bot", ch |-> bCloseChan]]
    /\ UNCHANGED <<sbVars, cfgVars, postVars, srcVars, opener, closeRet, regVars, botVars>>

\* the send on b.closeChan meets one receiver blocked on the same channel
SigDeliver(s, w) ==
    /\ Alive
    /\ sig[s].pc = "sending"
    /\ waiter[w].pc = "blocked"
    /\ waiter[w].kind = "bot"
    /\ waiter[w].ch = sig[s].ch
    /\ sig' = [sig EXCEPT ![s].pc = "sent"]
    /\ waiter' = [waiter EXCEPT ![w].pc = "returned"]
    /\ UNCHANGED <<sbVars, cfgVars, postVars, srcVars, opener, closeRet, regVars, bCloseChan, disp>>

\* NewWebsocketEventSource and NewBot
ConnInit ==
    /\ wsConn = Nil
    /\ eventChan = Nil
    /\ closeChan = Nil
    /\ nOpens = 0
    /\ handleClosed = [i \in Instances |-> 0]
    /\ evClosed = [i \in Instances |-> 0]
    /\ sigClosed = [i \in Instances |-> 0]
    /\ recv = [i \in Instances |-> IdleRecv]
    /\ nFrames = 0
    /\ panicked = ""
    /\ opener = [t \in Threads |-> IdleOpener]
    /\ closeRet = [err |-> "none", early |-> FALSE]
    /\ waiter = [w \in Waiters |-> IdleWaiter]
    /\ eventRegistries = [k \in Types |-> ""]
    /\ eventHandlers = [k \in Types |-> <<>>]
    /\ bCloseChan = Nil
    /\ disp = [i \in Instances |-> IdleDisp]
    /\ sig = [i \in Instances |-> IdleSig]
    /\ nSetup = 0
    /\ lastCall = NoCall
    /\ prototype = [k \in Types |-> ZeroEvent("")]

\* -------------------------------------------------------- SegmentBuilder

\* the segments and the errors a caller passes to Append ("nil": no error)
Segments == {"s1", "s2"}
Errors == {"nil", "e1", "e2"}

\* a slice value: nil, or a slice with its items
NilSlice == [nil |-> TRUE, items |-> <<>>]
Slice(items) == [nil |-> FALSE, items |-> items]

NotBuilt == [at |-> -1, segments |-> NilSlice, err |-> "nil"]

\* NewSegmentBuilder(): segments: make([]Segment, 0), error: nil
NewSegmentBuilder ==
    /\ segments = <<>>
    /\ error = "nil"
    /\ built = NotBuilt
    /\ appended = <<>>

\* faulty variant: Append without the test of sb.error
SegmentBuilderAppend_NoLatch(segment, e) ==
    /\ Len(appended) < MaxAppends
    /\ appended' = Append(appended, [segment |-> segment, err |-> e])
    /\ IF e # "nil"
       THEN error' = e /\ UNCHANGED segments
       ELSE segments' = Append(segments, segment) /\ UNCHANGED error
    /\ UNCHANGED <<built, cfgVars, postVars, connVars>>

\* SegmentBuilder.Append(segment, err)
SegmentBuilderAppend(segment, e) ==
    /\ Len(appended) < MaxAppends
    /\ appended' = Append(appended, [segment |-> segment, err |-> e])
    /\ IF error # "nil"
       THEN UNCHANGED <<segments, error>>
       ELSE IF e # "nil"
       THEN error' = e /\ UNCHANGED segments
       ELSE segments' = Append(segments, segment) /\ UNCHANGED error
    /\ UNCHANGED <<built, cfgVars, postVars, connVars>>

\* SegmentBuilder.Build(): (nil, sb.error) or (sb.segments, nil)
SegmentBuilderBuild ==
    /\ built' = IF error # "nil"
                THEN [at |-> Len(appended), segments |-> NilSlice, err |-> error]
                ELSE [at |-> Len(appended), segments |-> Slice(segments), err |-> "nil"]
    /\ UNCHANGED <<segments, error, appended, cfgVars, postVars, connVars>>

\* a client that is not in a call
PostIdle ==
    /\ maxRetries = 0
    /\ baseRetryDelay = 1
    /\ maxRetryDelay = 1
    /\ maxRetryJitter = 1
    /\ pc = "returned"
    /\ attempt = 0
    /\ delay = 0
    /\ woken = "none"
    /\ ctxDone = FALSE
    /\ result = "none"
    /\ calls = 0
    /\ lateCalls = 0
    /\ cancelledIn = "none"
    /\ resp = NoResp
    /\ response = [nil |-> TRUE, value |-> "zero"]
    /\ err = "nil"

Init == ConnInit /\ PostIdle /\ NewSegmentBuilder

\* the frames of a gateway that sends well-formed events only
SoundFrames == {f \in Frames : ~FrameErr(f) /\ Unmarshal(MessageBytes(f)).ev.Type = "a"}

\* The life cycle of the connection: one application thread opens and closes
\* the Bot while the receive and dispatch goroutines run.
Next ==
    \/ \E dialOk \in BOOLEAN : OpenCall("t1", dialOk)
    \/ BotOpenFinish("t1")
    \/ BotOpenFail("t1")
    \/ \E ok \in BOOLEAN : ExtClose(ok)
    \/ \E i \in Instances, f \in SoundFrames : RecvFrame(i, f)
    \/ \E i \in Instances : RecvError(i)
    \/ \E i \in Instances : RecvCheck(i)
    \/ \E i \in Instances, ok \in BOOLEAN : RecvClose(i, ok)
    \/ \E i \in Instances : RecvSendPanic(i)
    \/ \E i \in Instances : RecvPoll(i)
    \/ \E s \in Instances : DispatchTake(s)
    \/ \E s \in Instances : DispatchEnd(s)

Spec == Init /\ [][Next]_vars

\* Registration and dispatch: the application fills the registries, opens the
\* Bot once and the gateway sends frames of every kind.
NextDispatch ==
    \/ \E k \in Types, proto \in Types : SetEventRegistry(k, proto)
    \/ \E h \in Handlers : Handle(h)
    \/ OpenCall("t1", TRUE)
    \/ BotOpenFinish("t1")
    \/ \E i \in Instances, f \in Frames : RecvFrame(i, f)
    \/ \E i \in Instances : RecvPoll(i)
    \/ \E s \in Instances : DispatchTake(s)
    \/ \E s \in Instances : DispatchInvoke(s)

SpecDispatch == Init /\ [][NextDispatch]_vars

\* Sessions one after the other: the application registers prototypes under
\* their own identifiers and handlers, then opens, closes and re-opens the
\* Bot while the gateway sends well-formed events and the handlers run.
NextReopen ==
    \/ \E k \in Types : SetEventRegistry(k, k)
    \/ \E h \in Handlers : Handle(h)
    \/ OpenCall("t1", TRUE)
    \/ BotOpenFinish("t1")
    \/ BotOpenFail("t1")
    \/ ExtClose(TRUE)
    \/ \E i \in Instances, f \in SoundFrames : RecvFrame(i, f)
    \/ \E i \in Instances : RecvError(i)
    \/ \E i \in Instances : RecvCheck(i)
    \/ \E i \in Instances : RecvClose(i, TRUE)
    \/ \E i \in Instances : RecvSendPanic(i)
    \/ \E i \in Instances : RecvPoll(i)
    \/ \E s \in Instances : DispatchTake(s)
    \/ \E s \in Instances : DispatchInvoke(s)
    \/ \E s \in Instances : DispatchEnd(s)

SpecReopen == Init /\ [][NextReopen]_vars

\* Concurrent callers: two application threads call Bot.Open while the
\* connection is opened, fails and is closed; the gateway sends no frames.
NextOpen ==
    \/ \E t \in Threads, dialOk \in BOOLEAN : OpenCall(t, dialOk)
    \/ \E t \in Threads : BotOpenFinish(t)
    \/ \E t \in Threads : BotOpenFail(t)
    \/ \E ok \in BOOLEAN : ExtClose(ok)
    \/ \E i \in Instances : RecvError(i)
    \/ \E i \in Instances : RecvCheck(i)
    \/ \E i \in Instances, ok \in BOOLEAN : RecvClose(i, ok)

SpecOpen == Init /\ [][NextOpen]_vars

\* Waiting for the end of a session: callers of Wait beside an application
\* thread that opens and closes the Bot, on a gateway that may refuse the
\* dial and a connection that carries no frames and does not fail.
NextWait ==
    \/ \E dialOk \in BOOLEAN : OpenCall("t1", dialOk)
    \/ BotOpenFinish("t1")
    \/ BotOpenFail("t1")
    \/ ExtClose(TRUE)
    \/ \E s \in Instances : DispatchEnd(s)
    \/ \E s \in Instances : SigSend(s)
    \/ \E w \in Waiters : WsWaitCall(w)
    \/ \E w \in Waiters : WsWaitReturn(w)
    \/ \E w \in Waiters : BotWaitCall(w)
    \/ \E s \in Instances, w \in Waiters : SigDeliver(s, w)

SpecWait == Init /\ [][NextWait]_vars

\* Every goroutine that can take a step is scheduled: Bot.Open runs to its
\* return, the loop leaves its range on the closed channel, the signalling
\* goroutine reaches its send, a send meets a receiver that waits on the same
\* channel, a receive on a closed channel returns. The application is not
\* obliged to call anything.
FairWait ==
    /\ WF_vars(BotOpenFinish("t1"))
    /\ WF_vars(BotOpenFail("t1"))
    /\ \A s \in Instances : WF_vars(DispatchEnd(s))
    /\ \A s \in Instances : WF_vars(SigSend(s))
    /\ \A s \in Instances : WF_vars(\E w \in Waiters : SigDeliver(s, w))
    /\ \A w \in Waiters : WF_vars(WsWaitReturn(w))

SpecWaitFair == SpecWait /\ FairWait

NextPost ==
    \/ DoPostStart
    \/ DoPostOk
    \/ DoPostFailLast
    \/ DoPostFailRetry
    \/ TimerFire
    \/ SelectCtxDone
    \/ SelectTimer
    \/ Cancel

InitPost == PostInit /\ ConnInit /\ NewSegmentBuilder

SpecPost == InitPost /\ [][NextPost]_vars

\* The goroutine in Post keeps running, the http.Client's Timeout ends every
\* doPost and the runtime fires every timer; nothing obliges the caller to
\* cancel.
FairPost ==
    /\ WF_vars(DoPostStart)
    /\ WF_vars(DoPostOk \/ DoPostFailLast \/ DoPostFailRetry)
    /\ WF_vars(TimerFire)
    /\ WF_vars(SelectCtxDone)
    /\ WF_vars(SelectTimer)

SpecPostFair == SpecPost /\ FairPost

\* One SegmentBuilder: a caller appends segments and errors and builds.
NextBuilder ==
    \/ \E segment \in Segments, e \in Errors : SegmentBuilderAppend(segment, e)
    \/ SegmentBuilderBuild

SpecBuilder == Init /\ [][NextBuilder]_vars

\* ================================================================ claims

\* the runtime panics a close() or a Close through a nil handle can raise
ClosePanics == {"nil pointer dereference", "close of nil channel", "close of closed channel"}

\* the dispatch loop of session s takes the raw event of its channel in this step
Takes(s) ==
    /\ disp[s].pc = "range"
    /\ recv[disp[s].ch].pc = "send"
    /\ recv'[disp[s].ch].pc = "poll"

\* C1: every raw event taken from the channel whose type has a registered
\* prototype, at least one registered handler and a decodable payload has
\* every handler registered for its type invoked exactly once, in
\* registration order: when the loop takes such an event it goes on to
\* invoke exactly the list registered for the event's type, and at any
\* moment of the invocation the handlers already invoked followed by those
\* still to be invoked are that list.
C1_HandlersOnceInOrder ==
    /\ [][\A s \in Instances :
            LET ev == recv[disp[s].ch].ev IN
            ( /\ Takes(s)
              /\ Registered(ev.Type)
              /\ eventHandlers[ev.Type] # <<>>
              /\ ~DecodeData(eventRegistries[ev.Type], ev.Data).err )
            => /\ disp'[s].pc = "handle"
               /\ disp'[s].calls = <<>>
               /\ disp'[s].rest = eventHandlers[ev.Type]]_vars
    /\ [](\A s \in Instances :
            ( /\ disp[s].pc = "handle"
              /\ Registered(disp[s].ev.Type)
              /\ eventHandlers[disp[s].ev.Type] # <<>> )
            => disp[s].calls \o disp[s].rest = eventHandlers[disp[s].ev.Type])

\* C2: when every attempt fails and the context is never cancelled, Post
\* returns the terminal error after exactly maxRetries+1 calls of doPost.
C2_FailsAfterMaxRetriesPlusOne ==
    (pc = "returned" /\ ~ctxDone /\ result # "nil" /\ calls > 0)
    => (result = "max retries exceeded" /\ calls = maxRetries + 1)

\* C3: a cancellation that arrives while Post waits between two attempts
\* makes Post return the cancellation error as its next step; no doPost call
\* is started after it.
C3_CancelInWaitReturnsAtOnce ==
    cancelledIn = "select"
    => /\ lateCalls = 0
       /\ pc \in {"select", "returned"}
       /\ pc = "select" => woken = "ctx"
       /\ pc = "returned" => result = "context canceled"

\* C3 witness: Post was cancelled during a wait and has returned the
\* cancellation error after at least one failed attempt
C3_Witness ==
    /\ cancelledIn = "select"
    /\ pc = "returned"
    /\ result = "context canceled"
    /\ calls >= 1

\* C4: Open on an open connection returns "already connected" and changes
\* nothing of the event source, the Bot or the running goroutines; Bot.Open
\* then returns the error without starting a dispatch loop.
C4_OpenWhenOpenDisturbsNothing ==
    /\ [][\A t \in Threads :
            (opener[t].pc = "idle" /\ opener'[t].pc # "idle" /\ wsConn # Nil)
            => /\ opener'[t].pc = "failed"
               /\ opener'[t].err = "already connected"
               /\ UNCHANGED <<srcVars, botVars, regVars>>]_vars
    /\ [][\A t \in Threads :
            (opener[t].pc = "failed" /\ opener'[t].pc = "idle")
            => UNCHANGED <<srcVars, botVars, regVars>>]_vars

\* C4 witness: Open has just returned "already connected" while the
\* connection is open and its receive and dispatch goroutines are running
C4_Witness ==
    /\ wsConn # Nil
    /\ \E t \in Threads : opener[t].pc = "failed" /\ opener[t].err = "already connected"
    /\ recv[wsConn].pc \in {"read", "send", "poll"}
    /\ disp[wsConn].pc = "range"
    /\ evClosed[wsConn] = 0

\* C5: Close on a closed connection is a no-op: it returns nil and changes
\* no state; in a state without a handle no step closes a handle or a
\* channel, or panics in a close.
C5_CloseWhenClosedIsNoop ==
    /\ [][(closeRet' # closeRet /\ wsConn = Nil)
            => /\ closeRet'.err = "nil"
               /\ closeRet'.early
               /\ UNCHANGED <<srcVars, botVars, regVars>>]_vars
    /\ [][wsConn = Nil
            => /\ handleClosed' = handleClosed
               /\ evClosed' = evClosed
               /\ sigClosed' = sigClosed
               /\ (panicked' # panicked => panicked' \notin ClosePanics)]_vars

\* C5 witness: a connection was opened and closed, and a further Close took
\* the early return
C5_Witness ==
    /\ closeRet.early
    /\ closeRet.err = "nil"
    /\ wsConn = Nil
    /\ nOpens >= 1
    /\ \E i \in Instances : handleClosed[i] = 1 /\ evClosed[i] = 1 /\ sigClosed[i] = 1

\* C6: whatever the interleaving of the application's Close with the receive
\* goroutine's own Close, the handle, the event channel and the
\* close-completion channel of an instance are closed at most once, together,
\* and no close panics.
C6_ClosedExactlyOnce ==
    /\ panicked \notin ClosePanics
    /\ \A i \in Instances :
         /\ handleClosed[i] <= 1
         /\ evClosed[i] = handleClosed[i]
         /\ sigClosed[i] = handleClosed[i]

\* C6 witness: on the only instance, the receive goroutine called Close after
\* a read error and the application's Close closed the connection; the
\* channels were closed once
C6_Witness ==
    /\ nOpens = 1
    /\ recv[1].pc = "done"
    /\ closeRet.err = "nil"
    /\ ~closeRet.early
    /\ handleClosed[1] = 1
    /\ evClosed[1] = 1
    /\ sigClosed[1] = 1

\* C7: a receive goroutine whose instance is not the current one exits
\* silently on a read error, and a receive goroutine never closes a handle
\* or a channel of an instance other than its own.
C7_ReceiveTouchesOwnInstanceOnly ==
    /\ [][\A i \in Instances :
            (recv[i].pc = "check" /\ recv'[i].pc # "check" /\ wsConn # i)
            => (recv'[i].pc = "exit" /\ UNCHANGED <<wsConn, handleClosed, evClosed, sigClosed>>)]_vars
    /\ [][\A i \in Instances :
            (recv[i].pc = "close" /\ recv'[i].pc = "done")
            => \A j \in Instances \ {i} :
                 /\ handleClosed'[j] = handleClosed[j]
                 /\ evClosed'[j] = evClosed[j]
                 /\ sigClosed'[j] = sigClosed[j]]_vars

\* C8: a read error on the current connection closes it: when the receive
\* goroutine returns from that error path the connection holds no handle
\* and the instance's event channel and close-completion channel are closed.
C8_ReadErrorClosesConnection ==
    [][\A i \in Instances :
         (recv[i].pc = "close" /\ recv'[i].pc = "done")
         => /\ wsConn' = Nil
            /\ evClosed'[i] = 1
            /\ sigClosed'[i] = 1]_vars

\* C9: a frame that cannot be decompressed or decoded is dropped: the
\* receive goroutine never stands at the push of an event made from such a
\* frame, and it does not die on the frame.
C9_BadFrameDropped ==
    /\ panicked = ""
    /\ \A i \in Instances : recv[i].pc = "send" => ~recv[i].err

\* C10: Wait on an event source that was never opened does not hang (no
\* caller is blocked on the nil channel), and a Wait that has returned had
\* its close-completion channel closed.
C10_WaitNeverHangsOnUnopened ==
    \A w \in Waiters :
        waiter[w].kind = "source"
        => /\ ~(waiter[w].pc = "blocked" /\ waiter[w].ch = Nil)
           /\ waiter[w].pc = "returned" => sigClosed[waiter[w].ch] > 0

\* the entries of a dispatch log that record the receipt of a raw event
IsTake(e) == e.what \notin Handlers

\* C11: a raw event whose type has no entry in the event registry has no
\* handler invoked and does not stop the loop: the step that takes it leaves
\* the loop at its receive on the same channel with the process alive, and
\* no handler call is ever logged for its frame.
C11_UnknownTypeSkipped ==
    /\ [][\A s \in Instances :
            (Takes(s) /\ ~Registered(recv[disp[s].ch].ev.Type))
            => /\ disp'[s].pc = "range"
               /\ disp'[s].ch = disp[s].ch
               /\ disp'[s].rest = <<>>
               /\ panicked' = panicked]_vars
    /\ [](\A s \in Instances : \A j, k \in 1 .. Len(disp[s].log) :
            (disp[s].log[j].what = "unknown type" /\ disp[s].log[k].what \in Handlers)
            => disp[s].log[k].frame # disp[s].log[j].frame)

\* C11 witness: the loop skipped a raw event of an unregistered type and
\* afterwards invoked a handler for a later event
C11_Witness ==
    \E s \in Instances : \E j, k \in 1 .. Len(disp[s].log) :
        /\ j < k
        /\ disp[s].log[j].what = "unknown type"
        /\ disp[s].log[k].what \in Handlers
        /\ disp[s].log[k].frame > disp[s].log[j].frame

\* C12: the frames of a connection reach the loop and the handlers in the
\* order they were read: along the log of a session the frame ordinals never
\* decrease, every frame is received at most once, and every handler call
\* belongs to the frame received last.
C12_FifoDispatch ==
    \A s \in Instances :
        LET lg == disp[s].log IN
        /\ \A j, k \in 1 .. Len(lg) : j < k => lg[j].frame <= lg[k].frame
        /\ \A j, k \in 1 .. Len(lg) :
              (j < k /\ IsTake(lg[j]) /\ IsTake(lg[k])) => lg[j].frame < lg[k].frame
        /\ \A k \in 1 .. Len(lg) :
              ~IsTake(lg[k]) => /\ k > 1
                                /\ lg[k - 1].frame = lg[k].frame
                                /\ lg[k - 1].what \in Handlers \cup {"dispatch"}
        /\ \A k \in 1 .. Len(lg) : lg[k].frame \in 1 .. nFrames

\* C12 witness: two frames were read and both were dispatched, each to two
\* handlers
C12_Witness ==
    \E s \in Instances :
        LET lg == disp[s].log IN
        /\ Len(lg) = 6
        /\ lg[2].what \in Handlers /\ lg[3].what \in Handlers
        /\ lg[2].frame = 1 /\ lg[3].frame = 1
        /\ lg[5].what \in Handlers /\ lg[6].what \in Handlers
        /\ lg[5].frame = 2 /\ lg[6].frame = 2

\* C13: while the context is not cancelled, a failed attempt with index
\* below maxRetries is followed by a wait of at most maxRetryDelay and then
\* by the next attempt, and an attempt that succeeds makes Post return nil;
\* at a successful return the attempts made are the failed ones plus one.
C13_SucceedsAfterNFailures ==
    /\ [][(pc = "doPost" /\ pc' # pc /\ ~ctxDone /\ attempt < maxRetries /\ err' # "nil")
            => (pc' = "select" /\ delay' <= maxRetryDelay)]_vars
    /\ []((pc = "returned" /\ result = "nil") => calls = attempt + 1)
    /\ [](delay <= maxRetryDelay)
    /\ ((pc = "select" /\ ~ctxDone) ~> (ctxDone \/ pc = "doPost"))
    /\ ((pc = "doPost" /\ DoPostResult(resp, response).err = "nil")
          ~> (ctxDone \/ (pc = "returned" /\ result = "nil")))

\* C13 witness: one attempt failed, the second succeeded, with maxRetries = 2
\* and no cancellation
C13_Witness ==
    /\ pc = "returned"
    /\ result = "nil"
    /\ ~ctxDone
    /\ attempt = 1
    /\ calls = 2
    /\ attempt < maxRetries
    /\ delay > 0

\* C14: once the context is cancelled during a call, no doPost is started
\* any more and Post returns the cancellation error.
C14_CancelAnywhereIsTerminal ==
    ctxDone => /\ lateCalls = 0
               /\ pc = "returned" => result = "context canceled"

\* C18: Post returns nil only on a response whose status is in [200,300); an
\* attempt that meets any other status is a failure: Post does not return
\* nil on it, and below maxRetries it goes on to the wait before the next
\* attempt.
C18_SuccessOnlyOn2xx ==
    /\ [](result = "nil" => (resp.kind = "response" /\ 200 <= resp.status /\ resp.status < 300))
    /\ [][(/\ pc = "doPost" /\ pc' # pc
           /\ resp.kind = "response"
           /\ ~(200 <= resp.status /\ resp.status < 300))
            => /\ err' = "unexpected status code"
               /\ result' # "nil"
               /\ pc' \in {"select", "returned"}
               /\ attempt < maxRetries => pc' = "select"]_vars

\* C18 witness: every attempt met a status outside [200,300), the last of
\* them after a retry, and Post returned the terminal error
C18_Witness ==
    /\ pc = "returned"
    /\ result = "max retries exceeded"
    /\ err = "unexpected status code"
    /\ calls >= 2
    /\ ~ctxDone

\* C19: a doPost that meets a status in [200,300) with a nil slot or with
\* status 204 returns nil and leaves the slot as it was; with a slot, another
\* status and an envelope whose data decodes, it returns nil and the slot
\* holds the decoded data.
C19_NoContentIsNoop ==
    [][(/\ pc = "doPost" /\ pc' # pc
        /\ resp.kind = "response"
        /\ 200 <= resp.status /\ resp.status < 300)
         => /\ (response.nil \/ resp.status = 204)
                 => (err' = "nil" /\ response' = response /\ result' = "nil")
            /\ (/\ ~response.nil /\ resp.status # 204
                /\ resp.body.json
                /\ resp.body.env.Data = "v1")
                 => (err' = "nil" /\ response' = [nil |-> FALSE, value |-> "v1"])]_vars

\* C19 witness: a 204 that carried an envelope with data met a slot, and Post
\* returned nil with the slot untouched
C19_Witness ==
    /\ pc = "returned"
    /\ result = "nil"
    /\ resp.kind = "response"
    /\ resp.status = 204
    /\ resp.body.json
    /\ resp.body.env.Data = "v1"
    /\ response = [nil |-> FALSE, value |-> "zero"]

\* C20: the wait after the failed attempt with index attempt is
\* min(maxRetryDelay, baseRetryDelay * 2^attempt + jitter) for a jitter in
\* 0 .. maxRetryJitter-1: it is at least min(maxRetryDelay, baseRetryDelay *
\* 2^attempt) and at most maxRetryDelay.
C20_DelayFormula ==
    pc = "select"
    => /\ \E jitter \in 0 .. (maxRetryJitter - 1) :
             delay = Min(maxRetryDelay, baseRetryDelay * Pow2(attempt) + jitter)
       /\ delay >= Min(maxRetryDelay, baseRetryDelay * Pow2(attempt))
       /\ delay <= maxRetryDelay

\* C15: when the event channel of a session is closed its dispatch loop
\* ends, the loop's end starts the one completion signal of the session, and
\* every caller blocked in Bot.Wait on a session whose connection was closed
\* is eventually released.
C15_LoopEndReleasesWaiters ==
    /\ \A s \in Instances :
         (disp[s].pc = "range" /\ evClosed[disp[s].ch] > 0) ~> (disp[s].pc = "ended")
    /\ [][\A s \in Instances :
            (disp[s].pc = "range" /\ disp'[s].pc = "ended")
            => (sig[s].pc = "none" /\ sig'[s].pc = "start")]_vars
    /\ \A w \in Waiters :
         (waiter[w].kind = "bot" /\ waiter[w].pc = "blocked" /\ evClosed[waiter[w].ch] > 0)
           ~> (waiter[w].pc = "returned")

\* the receive goroutine of instance i completes its push in this step
Pushes(i) == recv[i].pc = "send" /\ recv'[i].pc = "poll"

\* C16: Open on a closed connection never fails with "already connected";
\* when it succeeds the connection holds a handle, an event channel and a
\* close-completion channel made for the new instance, which are not those
\* of an earlier instance and are not closed, and a receive goroutine reads
\* from the new handle. A push by the receive goroutine of an instance is
\* received by the loop of that instance only.
C16_ReopenIsFresh ==
    /\ [][\A t \in Threads :
            (opener[t].pc = "idle" /\ opener'[t].pc # "idle" /\ wsConn = Nil)
            => /\ opener'[t].err \in {"nil", "dial error"}
               /\ opener'[t].err = "nil" =>
                    /\ wsConn' # Nil
                    /\ handleClosed[wsConn'] = 0
                    /\ eventChan' \notin {Nil, eventChan}
                    /\ closeChan' \notin {Nil, closeChan}
                    /\ evClosed[eventChan'] = 0
                    /\ sigClosed[closeChan'] = 0
                    /\ opener'[t].ch = eventChan'
                    /\ recv[wsConn'].pc = "none"
                    /\ recv'[wsConn'].pc = "read"
                    /\ \A s \in Instances : disp[s].ch # eventChan']_vars
    /\ [][\A i, s \in Instances :
            (Pushes(i) /\ disp[s].ch # i) => disp'[s] = disp[s]]_vars

\* C16 witness: the connection was closed and opened again; the loop of the
\* second instance has received an event while the receive goroutine of the
\* first instance still holds a frame
C16_Witness ==
    /\ nOpens = 2
    /\ handleClosed[1] = 1
    /\ evClosed[1] = 1
    /\ wsConn = 2
    /\ evClosed[2] = 0
    /\ recv[1].pc = "send"
    /\ disp[2].pc = "range"
    /\ Len(disp[2].log) = 1

\* C17: every handle that was dialled and not closed is the current one, so
\* at most one handle is open, and the only receive goroutine that may be
\* reading is that of a dialled instance; Open succeeds only on a connection
\* without a handle and otherwise returns "already connected", so a second
\* Open succeeds beside an earlier success only after a Close of the earlier
\* handle.
C17_AtMostOneHandle ==
    /\ [](\A i \in Instances :
            /\ (i <= nOpens /\ handleClosed[i] = 0) => wsConn = i
            /\ i > nOpens => recv[i].pc = "none")
    /\ [][\A t \in Threads :
            (opener[t].pc = "idle" /\ opener'[t].pc # "idle")
            => /\ wsConn # Nil => opener'[t].err = "already connected"
               /\ opener'[t].pc = "opened" =>
                    /\ wsConn = Nil
                    /\ \A u \in Threads \ {t} :
                         opener[u].pc = "opened" => handleClosed[opener[u].ch] >= 1]_vars

\* C17 witness: of two concurrent Open calls one succeeded and the other
\* returned "already connected"
C17_Witness ==
    /\ opener["t1"].pc = "opened"
    /\ opener["t2"].pc = "failed"
    /\ opener["t2"].err = "already connected"
    /\ wsConn = opener["t1"].ch
    /\ handleClosed[wsConn] = 0

\* C21: for every payload p, the binary frame that is the compression of p
\* and the text frame p make the receive goroutine stand to push the same
\* RawEvent, the one p decodes to, and raise the same errors.
C21_BinaryEqualsText ==
    \A i \in Instances : \A p \in Payloads :
        (/\ recv[i].pc = "send"
         /\ recv[i].frame \in {[binary |-> TRUE, message |-> Compress(p)],
                               [binary |-> FALSE, message |-> p]})
        => /\ recv[i].ev = Unmarshal(p).ev
           /\ recv[i].err = Unmarshal(p).err

\* C21 witness: a compressed frame of an event of type b was decoded to the
\* event its text carries
C21_Witness ==
    \E i \in Instances :
        /\ recv[i].pc = "send"
        /\ recv[i].frame = [binary |-> TRUE, message |-> Compress(JsonB)]
        /\ recv[i].ev = [Type |-> "b", SelfID |-> 1, Data |-> "{text:hi}"]

\* C22: Handle(h) leaves the list of h's declared type as the old list
\* followed by h and changes no other list and no prototype; the handlers of
\* a dispatched event are a registered list as it stands, so a handler
\* registered twice is invoked twice.
C22_HandleAppends ==
    /\ [][(lastCall' # lastCall \/ nSetup' # nSetup) /\ lastCall'.op = "Handle"
            => LET h == lastCall'.handler IN
               /\ eventHandlers'[HandlerType(h)] = eventHandlers[HandlerType(h)] \o <<h>>
               /\ \A k \in Types \ {HandlerType(h)} : eventHandlers'[k] = eventHandlers[k]
               /\ eventRegistries' = eventRegistries]_vars
    /\ [](\A s \in Instances :
            disp[s].pc = "handle"
            => \E k \in Types : disp[s].calls \o disp[s].rest = eventHandlers[k])

\* C22 witness: h1 was registered twice and the loop is in the second of its
\* two calls for one event
C22_Witness ==
    /\ eventHandlers["a"] = <<"h1", "h1">>
    /\ \E s \in Instances :
         /\ disp[s].pc = "handle"
         /\ disp[s].calls = <<"h1">>
         /\ disp[s].rest = <<"h1">>

\* C23: SetEventRegistry(t, p) always leaves the registry mapping t to p,
\* whatever t mapped to before, changes no other entry and no handler list,
\* and does not end the process; no call of the model returns the error
\* "event registry already exists".
C23_SetEventRegistryOverwrites ==
    /\ [][(lastCall' # lastCall \/ nSetup' # nSetup) /\ lastCall'.op = "SetEventRegistry"
            => LET t == lastCall'.eventType IN
               /\ eventRegistries'[t] = lastCall'.event
               /\ \A k \in Types \ {t} : eventRegistries'[k] = eventRegistries[k]
               /\ eventHandlers' = eventHandlers
               /\ panicked' = panicked]_vars
    /\ [](/\ \A t \in Threads : opener[t].err # "event registry already exists"
          /\ closeRet.err # "event registry already exists"
          /\ panicked # "event registry already exists")

\* C23 witness: two calls have set the prototype of "a" and the registry holds
\* what the second call gave
C23_Witness ==
    /\ nSetup = 2
    /\ eventHandlers = [k \in Types |-> <<>>]
    /\ eventRegistries = [k \in Types |-> IF k = "a" THEN "b" ELSE ""]
    /\ lastCall = [op |-> "SetEventRegistry", eventType |-> "a", event |-> "b"]

\* the number of raw events the loop of session s has received
Received(s) == Cardinality({k \in 1 .. Len(disp[s].log) : IsTake(disp[s].log[k])})

\* C24: on a connection the frames read exceed the raw events received by
\* the loop by at most one, and a frame is read only when every frame read
\* before has been received by the loop.
C24_OneInFlight ==
    /\ [](nOpens <= 1 => (nFrames - Received(1)) \in {0, 1})
    /\ [][(nOpens <= 1 /\ nFrames' # nFrames) => Received(1) = nFrames]_vars

\* C24 witness: the second frame was read after the first was received and
\* is held in the push
C24_Witness ==
    /\ nOpens = 1
    /\ nFrames = 2
    /\ Received(1) = 1
    /\ recv[1].pc = "send"
    /\ recv[1].no = 2

C26_HandlersOfOwnType ==
    /\ [][\A s \in Instances :
            LET ev == recv[disp[s].ch].ev IN
            (Takes(s) /\ Registered(ev.Type) /\ ev.Data = "{text:hi}")
            => IF eventHandlers[ev.Type] = <<>>
               THEN disp'[s].pc = "range"
               ELSE /\ disp'[s].pc = "handle"
                    /\ disp'[s].rest = eventHandlers[ev.Type]]_vars
    /\ [](\A s \in Instances :
            disp[s].pc = "handle"
            => disp[s].calls \o disp[s].rest = eventHandlers[disp[s].ev.Type])

\* the payloads that do not decode into the typed event: none, or a member
\* of the wrong type
Undecodable == {"", "{text:5}"}

\* C27: a raw event of a registered type whose payload does not decode has
\* no handler invoked: the loop that takes it is back at its receive on the
\* same channel, the process is alive, and no handler call is ever logged
\* for its frame.
C27_DecodeFailureSkipped ==
    /\ [][\A s \in Instances :
            LET ev == recv[disp[s].ch].ev IN
            (Takes(s) /\ Registered(ev.Type) /\ ev.Data \in Undecodable)
            => /\ disp'[s].pc = "range"
               /\ disp'[s].ch = disp[s].ch
               /\ disp'[s].rest = <<>>
               /\ panicked' = panicked]_vars
    /\ [](\A s \in Instances : \A j, k \in 1 .. Len(disp[s].log) :
            (disp[s].log[j].what = "decode error" /\ disp[s].log[k].what \in Handlers)
            => disp[s].log[k].frame # disp[s].log[j].frame)

\* C27 witness: the loop skipped an event whose payload did not decode,
\* although its type had a prototype and a handler, and then invoked the
\* handler for the next event
C27_Witness ==
    \E s \in Instances :
        LET lg == disp[s].log IN
        /\ Len(lg) >= 3
        /\ lg[1].what = "decode error"
        /\ lg[2].what = "dispatch"
        /\ lg[3].what \in Handlers
        /\ lg[3].frame > lg[1].frame

\* C28: at any time at most one dispatch loop of the Bot is in its handler
\* calls.
C28_OneLoopInvokes ==
    Cardinality({s \in Instances : disp[s].pc = "handle"}) <= 1

\* C29: the receive goroutine never stands in a push on a closed event
\* channel, and the process never dies of a send on a closed channel.
C29_NoSendOnClosed ==
    /\ panicked # "send on closed channel"
    /\ \A i \in Instances : ~(recv[i].pc = "send" /\ evClosed[i] > 0)

\* C30: once the dispatch loop of a session has ended, every caller blocked
\* in Bot.Wait on that session returns, as long as the Bot is not opened
\* again.
C30_SignalIsBroadcast ==
    \A w \in Waiters :
        (/\ waiter[w].kind = "bot" /\ waiter[w].pc = "blocked"
         /\ disp[waiter[w].ch].pc = "ended")
          ~> (waiter[w].pc = "returned" \/ nOpens > 1)

\* C31: a caller of Bot.Wait that blocked on a session returns only when the
\* dispatch loop of that session has ended; the signal of an earlier loop
\* never releases it while its own session's loop is still running.
C31_WaitReturnsOnOwnSessionEnd ==
    \A w \in Waiters :
        (waiter[w].kind = "bot" /\ waiter[w].pc = "returned" /\ waiter[w].ch # Nil)
          => disp[waiter[w].ch].pc = "ended"

\* C32: a Close whose transport close fails returns the error and changes
\* nothing: the handle stays current and no channel is closed; an Open that
\* follows while the handle is still recorded fails with "already connected".
C32_FailedCloseChangesNothing ==
    /\ [][(closeRet' # closeRet /\ closeRet'.err = "close error")
          => (/\ wsConn' # Nil
              /\ UNCHANGED <<wsConn, eventChan, closeChan, handleClosed, evClosed,
                             sigClosed, panicked>>)]_vars
    /\ [][\A t \in Threads :
            (/\ closeRet.err = "close error" /\ wsConn # Nil
             /\ opener[t].pc = "idle" /\ opener'[t].pc # "idle")
            => (/\ opener'[t] = [pc |-> "failed", err |-> "already connected", ch |-> Nil]
                /\ UNCHANGED srcVars)]_vars

C32_Witness ==
    /\ closeRet.err = "close error"
    /\ wsConn # Nil
    /\ evClosed[eventChan] = 0
    /\ sigClosed[closeChan] = 0
    /\ opener["t1"].err = "already connected"

\* C33: an Open whose dial fails returns the error and changes nothing: no
\* handle is recorded, no channel is made, no receive goroutine is started,
\* Bot.Open starts no dispatch loop and keeps its completion channel, and the
\* connection is still closed, so that a later Open is not refused.
C33_FailedOpenChangesNothing ==
    /\ [][\A t \in Threads :
            (opener[t].pc = "idle" /\ opener'[t].err = "dial error")
            => (/\ opener'[t] = [pc |-> "failed", err |-> "dial error", ch |-> Nil]
                /\ wsConn' = Nil
                /\ UNCHANGED <<srcVars, botVars>>)]_vars
    /\ [][\A t \in Threads :
            (opener[t].err = "dial error" /\ opener'[t] # opener[t])
            => (/\ opener'[t] = IdleOpener
                /\ ~AlreadyConnected'
                /\ UNCHANGED <<srcVars, botVars>>)]_vars

C33_Witness ==
    /\ opener["t1"].err = "dial error"
    /\ nOpens > 0
    /\ bCloseChan # Nil
    /\ wsConn = Nil

\* C34: a step of a dispatch loop changes neither the event registry, nor
\* the handler registry, nor a registered prototype; the prototypes keep
\* their zero fields, and the event handed to the handlers of a raw event is
\* the decoding of that raw event's data into a zero event of the
\* prototype's type, whatever was dispatched before.
C34_FreshEventPerRawEvent ==
    /\ [][(\E s \in Instances : disp[s].pc \in {"range", "handle"} /\ disp'[s] # disp[s])
          => UNCHANGED <<eventRegistries, eventHandlers, prototype>>]_vars
    /\ [](\A k \in Types : prototype[k].text = "")
    /\ [](\A s \in Instances :
            disp[s].pc = "handle"
            => disp[s].event =
                 [Type |-> eventRegistries[disp[s].ev.Type],
                  text |-> IF disp[s].ev.Data = "{text:hi}" THEN "hi" ELSE ""])

C34_Witness ==
    \E s \in Instances :
        /\ disp[s].pc = "handle"
        /\ disp[s].ev.Data = "{}"
        /\ disp[s].event.text = ""
        /\ \E j \in 1 .. Len(disp[s].log) :
             disp[s].log[j].what \in Handlers /\ disp[s].log[j].frame < disp[s].no

\* C35: Post has returned nil exactly when its last attempt succeeded; the
\* step that follows a successful attempt is the return, with no wait and no
\* further attempt; nothing follows the return; a call that succeeded made
\* one attempt more than it waited, so a first-attempt success waited never.
C35_StopsAtFirstSuccess ==
    /\ [](pc = "returned" => (result = "nil" <=> (calls >= 1 /\ err = "nil")))
    /\ [](result = "nil" => (pc = "returned" /\ calls = attempt + 1))
    /\ []((result = "nil" /\ calls = 1) => delay = 0)
    /\ [][(pc = "doPost" /\ pc' # pc /\ DoPostResult(resp, response).err = "nil")
          => (/\ pc' = "returned" /\ result' = "nil"
              /\ UNCHANGED <<calls, attempt, delay, woken>>)]_vars
    /\ [][pc = "returned" => UNCHANGED <<pc, calls, attempt, delay, result>>]_vars

C35_Witness ==
    /\ pc = "returned"
    /\ result = "nil"
    /\ calls = 2
    /\ delay > 0

\* C36: what an attempt returns and what it leaves in the response slot do
\* not change when the envelope of the response is replaced by one with the
\* same data and another status string and retcode.
C36_EnvelopeStatusIgnored ==
    (pc = "doPost" /\ resp.kind = "response" /\ resp.body.json)
    => \A e \in Envelopes :
         e.Data = resp.body.env.Data
         => DoPostResult([resp EXCEPT !.body.env = e], response)
              = DoPostResult(resp, response)

C36_Witness ==
    /\ pc = "returned"
    /\ result = "nil"
    /\ resp.kind = "response"
    /\ resp.status = 200
    /\ resp.body.json
    /\ resp.body.env.Status = "failed"
    /\ resp.body.env.Code = -1
    /\ response = [nil |-> FALSE, value |-> "v1"]

\* C37: the wait computed after a failed attempt is never negative and never
\* above maxRetryDelay, at every attempt index 0 .. maxRetries.
C37_DelayWithinBounds ==
    (pc = "select" /\ attempt \in 0 .. maxRetries)
    => (0 <= delay /\ delay <= maxRetryDelay)

\* C38: a call of Bot.Wait made while no Open of the Bot has succeeded (none
\* was made, or every one failed) returns at once.
C38_WaitOnUnopenedBotReturns ==
    [][\A w \in Waiters :
         (/\ waiter[w].pc = "idle" /\ waiter'[w].kind = "bot"
          /\ nOpens = 0)
         => waiter'[w].pc = "returned"]_vars

C38_Witness ==
    /\ nOpens = 0
    /\ opener["t1"].err = "dial error"
    /\ waiter["w1"] = [pc |-> "returned", kind |-> "bot", ch |-> Nil]

\* the positions of the Append calls that were given an error, among the
\* first n calls
ErrorCalls(n) == {j \in 1 .. n : appended[j].err # "nil"}

\* the first n calls up to the first that was given an error (all of them if
\* none was)
BeforeFirstError(n) ==
    IF ErrorCalls(n) = {} THEN n
    ELSE (CHOOSE j \in ErrorCalls(n) : \A k \in ErrorCalls(n) : j <= k) - 1

\* C39: the builder holds the error of the first Append that was given one,
\* and the segments of the calls before it, in call order; with no such
\* call it holds no error and the segments of all calls. Build returned nil
\* and that first error, or else the segments in call order and no error.
C39_FirstErrorLatched ==
    LET n == Len(appended)
        first == BeforeFirstError(n)
    IN  /\ segments = [j \in 1 .. first |-> appended[j].segment]
        /\ error = IF first = n THEN "nil" ELSE appended[first + 1].err
        /\ built.at >= 0
           => LET b == BeforeFirstError(built.at)
              IN  IF b < built.at
                  THEN built.segments = NilSlice /\ built.err = appended[b + 1].err
                  ELSE /\ built.segments = Slice([j \in 1 .. b |-> appended[j].segment])
                       /\ built.err = "nil"

C39_Witness ==
    /\ Len(appended) = 3
    /\ appended[2].err = "e1"
    /\ appended[3].err = "e2"
    /\ built = [at |-> 3, segments |-> NilSlice, err |-> "e1"]

====
